---- MODULE Spec2Model ----
(***************************************************************************)
(* Model of the mortgage-rate scraper: interest_scraper.py (page parser,   *)
(* reducer, database update, main) and cloud_run_server.py (the POST       *)
(* /run-scraper handler).                                                  *)
(*                                                                         *)
(* Text is modelled as a sequence of one-character strings, so that        *)
(* strip(), startswith(), the substring test and the regular expressions   *)
(* are computed character by character as the code computes them.  A rate  *)
(* (a Python float parsed from a \d+\.\d+ match) is modelled as the        *)
(* integer number of hundredths; the page texts used carry at most two     *)
(* fractional digits, for which this is exact.  An optional value (None or *)
(* a value) is modelled as the empty sequence or a one-element sequence.   *)
(***************************************************************************)
EXTENDS Integers, Sequences, FiniteSets, TLC

(***************************************************************************)
(* String literals of the source.                                          *)
(***************************************************************************)
s_ANZ ==
    << "A", "N", "Z" >>
s_ASB ==
    << "A", "S", "B" >>
s_BNZ ==
    << "B", "N", "Z" >>
s_Kiwibank ==
    << "K", "i", "w", "i", "b", "a", "n", "k" >>
s_Westpac ==
    << "W", "e", "s", "t", "p", "a", "c" >>
s_Cooperative_Bank ==
    << "C", "o", "-", "o", "p", "e", "r", "a", "t", "i", "v", "e", " ", "B", "a", "n", "k" >>
s_SBS_Bank ==
    << "S", "B", "S", " ", "B", "a", "n", "k" >>
s_SBS ==
    << "S", "B", "S" >>
s_TSB_Bank ==
    << "T", "S", "B", " ", "B", "a", "n", "k" >>
s_TSB ==
    << "T", "S", "B" >>
s_HSBC ==
    << "H", "S", "B", "C" >>
s_Heartland_Bank ==
    << "H", "e", "a", "r", "t", "l", "a", "n", "d", " ", "B", "a", "n", "k" >>
s_prefix_contact ==
    << "c", "l", "i", "c", "k", " ", "t", "o", " ", "c", "o", "n", "t", "a", "c", "t", " " >>
s_prefix_here ==
    << "c", "l", "i", "c", "k", " ", "h", "e", "r", "e", " ", "t", "o", " ", "c", "o", "n", "t", "a", "c", "t", " " >>
s_suffix_home_loans ==
    << " ", "H", "o", "m", "e", " ", "L", "o", "a", "n", "s", " ", "%", "u", "2", "0", "1", "3", " ", "A", "p", "p", "l", "y", " ", "n", "o", "w", " ", "o", "r", " ", "f", "i", "n", "d", " ", "o", "u", "t", " ", "m", "o", "r", "e" >>
s_suffix_futures ==
    << " ", "-", " ", "c", "r", "e", "a", "t", "i", "n", "g", " ", "f", "u", "t", "u", "r", "e", "s", "." >>
s_Special ==
    << "S", "p", "e", "c", "i", "a", "l" >>
s_18_months_eq ==
    << "1", "8", " ", "m", "o", "n", "t", "h", "s", " ", "=" >>
s_18_months_eq_sp ==
    << "1", "8", " ", "m", "o", "n", "t", "h", "s", " ", "=", " " >>

(***************************************************************************)
(* Texts that occur in the pages fed to the parser (cell texts and image   *)
(* attributes).                                                            *)
(***************************************************************************)
t_empty ==
    <<  >>
t_Standard ==
    << "S", "t", "a", "n", "d", "a", "r", "d" >>
t_Special_rates ==
    << "S", "p", "e", "c", "i", "a", "l", " ", "r", "a", "t", "e", "s" >>
t_6_99 ==
    << "6", ".", "9", "9" >>
t_6_49_pct ==
    << "6", ".", "4", "9", "%" >>
t_6_29 ==
    << " ", "6", ".", "2", "9", " " >>
t_5_99 ==
    << "5", ".", "9", "9" >>
t_0_00 ==
    << "0", ".", "0", "0" >>
t_dash ==
    << "-" >>
t_18m_5_79 ==
    << "1", "8", " ", "m", "o", "n", "t", "h", "s", " ", "=", " ", "5", ".", "7", "9" >>
t_18m_na ==
    << "1", "8", " ", "m", "o", "n", "t", "h", "s", " ", "=", " ", "n", "/", "a" >>
t_alt_SBS ==
    << "C", "l", "i", "c", "k", " ", "t", "o", " ", "c", "o", "n", "t", "a", "c", "t", " ", "S", "B", "S" >>
t_alt_TSB ==
    << "T", "S", "B", " ", "B", "a", "n", "k", " ", "-", " ", "c", "r", "e", "a", "t", "i", "n", "g", " ", "f", "u", "t", "u", "r", "e", "s", "." >>

(***************************************************************************)
(* Optional values: None, or Some(v).                                      *)
(***************************************************************************)
None ==
    << >>
Some(v) ==
    << v >>

(***************************************************************************)
(* Python str operations, character by character.                          *)
(***************************************************************************)
IsSpace(c) ==
    c \in {" ", "\t", "\n"}

RECURSIVE lstrip(_)
lstrip(t) ==
    IF t # << >> /\ IsSpace(Head(t)) THEN lstrip(Tail(t)) ELSE t

RECURSIVE rstrip(_)
rstrip(t) ==
    IF t # << >> /\ IsSpace(t[Len(t)]) THEN rstrip(SubSeq(t, 1, Len(t) - 1)) ELSE t

\* str.strip()
strip(t) ==
    rstrip(lstrip(t))

\* t[i:].startswith(p), i counted from 1
StartsAt(t, i, p) ==
    /\ i + Len(p) - 1 <= Len(t)
    /\ SubSeq(t, i, i + Len(p) - 1) = p

startswith(t, p) ==
    StartsAt(t, 1, p)

endswith(t, s) ==
    /\ Len(s) <= Len(t)
    /\ SubSeq(t, Len(t) - Len(s) + 1, Len(t)) = s

\* p in t
Contains(t, p) ==
    \E i \in 1..(Len(t) + 1) : StartsAt(t, i, p)

UpperCase ==
    << "A", "B", "C", "D", "E", "F", "G", "H", "I", "J", "K", "L", "M",
       "N", "O", "P", "Q", "R", "S", "T", "U", "V", "W", "X", "Y", "Z" >>
LowerCase ==
    << "a", "b", "c", "d", "e", "f", "g", "h", "i", "j", "k", "l", "m",
       "n", "o", "p", "q", "r", "s", "t", "u", "v", "w", "x", "y", "z" >>

lower_char(c) ==
    IF \E k \in 1..Len(UpperCase) : UpperCase[k] = c
    THEN LowerCase[CHOOSE k \in 1..Len(UpperCase) : UpperCase[k] = c]
    ELSE c

\* str.lower()
lower(t) ==
    [k \in 1..Len(t) |-> lower_char(t[k])]

(***************************************************************************)
(* The regular expressions and float().                                    *)
(***************************************************************************)
IsDigit(c) ==
    c \in {"0", "1", "2", "3", "4", "5", "6", "7", "8", "9"}

digit_value(c) ==
    CASE c = "0" -> 0 [] c = "1" -> 1 [] c = "2" -> 2 [] c = "3" -> 3
      [] c = "4" -> 4 [] c = "5" -> 5 [] c = "6" -> 6 [] c = "7" -> 7
      [] c = "8" -> 8 [] c = "9" -> 9

\* The index just after the longest run of digits of t that starts at i (\d+ is
\* greedy; i itself when t[i] is no digit).
RECURSIVE DigitRunEnd(_, _)
DigitRunEnd(t, i) ==
    IF i <= Len(t) /\ IsDigit(t[i]) THEN DigitRunEnd(t, i + 1) ELSE i

\* A match of (\d+\.\d+) that starts exactly at index i: Some(group 1) or None.
MatchDecimalAt(t, i) ==
    LET dot == DigitRunEnd(t, i)
    IN  IF dot > i /\ dot <= Len(t) /\ t[dot] = "."
        THEN LET end == DigitRunEnd(t, dot + 1)
             IN  IF end > dot + 1 THEN Some(SubSeq(t, i, end - 1)) ELSE None
        ELSE None

\* re.search(r'(\d+\.\d+)', t): the leftmost match, Some(group 1) or None.
RECURSIVE SearchDecimalFrom(_, _)
SearchDecimalFrom(t, i) ==
    IF i > Len(t) THEN None
    ELSE LET m == MatchDecimalAt(t, i)
         IN  IF m # None THEN m ELSE SearchDecimalFrom(t, i + 1)

re_search_decimal(t) ==
    SearchDecimalFrom(t, 1)

\* re.search(r'18 months = (\d+\.\d+)', t): the leftmost match, Some(group 1) or None.
RECURSIVE Search18From(_, _)
Search18From(t, i) ==
    IF i > Len(t) THEN None
    ELSE LET m == MatchDecimalAt(t, i + Len(s_18_months_eq_sp))
         IN  IF StartsAt(t, i, s_18_months_eq_sp) /\ m # None
             THEN m
             ELSE Search18From(t, i + 1)

re_search_18_months(t) ==
    Search18From(t, 1)

\* The value of a run of digits.
RECURSIVE digits_value(_)
digits_value(ds) ==
    IF ds = << >> THEN 0
    ELSE 10 * digits_value(SubSeq(ds, 1, Len(ds) - 1)) + digit_value(ds[Len(ds)])

\* float(s) for s matching \d+\.\d+, in hundredths.
float(s) ==
    LET dot  == CHOOSE k \in 1..Len(s) : s[k] = "."
        frac == SubSeq(s, dot + 1, Len(s))
    IN  100 * digits_value(SubSeq(s, 1, dot - 1))
          + 10 * digit_value(frac[1])
          + (IF Len(frac) >= 2 THEN digit_value(frac[2]) ELSE 0)

\* Python truthiness of an optional float: None and 0.0 are falsy.
Truthy(rate) ==
    rate # None /\ rate[1] # 0

(***************************************************************************)
(* Lookup tables.                                                          *)
(***************************************************************************)
\* Pairs <<observed label, canonical name>>.
BANK_MAPPING ==
    { << s_ANZ, s_ANZ >>, << s_ASB, s_ASB >>, << s_BNZ, s_BNZ >>,
      << s_Kiwibank, s_Kiwibank >>, << s_Westpac, s_Westpac >>,
      << s_Cooperative_Bank, s_Cooperative_Bank >>,
      << s_SBS_Bank, s_SBS_Bank >>, << s_SBS, s_SBS_Bank >>,
      << s_TSB_Bank, s_TSB >>, << s_TSB, s_TSB >>,
      << s_HSBC, s_HSBC >>, << s_Heartland_Bank, s_Heartland_Bank >> }

\* BANK_MAPPING.get(name, name)
BankMappingGet(name) ==
    IF \E p \in BANK_MAPPING : p[1] = name
    THEN (CHOOSE p \in BANK_MAPPING : p[1] = name)[2]
    ELSE name

\* Pairs <<tenor label, canonical descriptor>>.
TENOR_MAPPING ==
    { << "Variable floating", [name |-> "Floating", months |-> 1] >>,
      << "floating", [name |-> "Floating", months |-> 1] >>,
      << "6 months", [name |-> "6 months", months |-> 6] >>,
      << "1 year", [name |-> "1 year", months |-> 12] >>,
      << "18 months", [name |-> "18 months", months |-> 18] >>,
      << "2 years", [name |-> "2 years", months |-> 24] >>,
      << "3 years", [name |-> "3 years", months |-> 36] >>,
      << "4 years", [name |-> "4 years", months |-> 48] >>,
      << "5 years", [name |-> "5 years", months |-> 60] >> }

\* TENOR_MAPPING.get(label): Some(descriptor) or None.
TenorMappingGet(label) ==
    IF \E p \in TENOR_MAPPING : p[1] = label
    THEN Some((CHOOSE p \in TENOR_MAPPING : p[1] = label)[2])
    ELSE None

(***************************************************************************)
(* The page.  A row is [img, cells]: img is None when the row holds no     *)
(* <img>, else Some([alt, title]) of its first <img> (a missing attribute  *)
(* is the empty text); cells are the row's <td> cells in order, each       *)
(* [text, cls] with cls its class attribute.  A table is [th, rows]: th    *)
(* says whether it holds a <th>.                                           *)
(***************************************************************************)
extract_bank_name(row) ==
    IF row.img # None /\ row.img[1].alt # << >> THEN Some(row.img[1].alt)
    ELSE IF row.img # None /\ row.img[1].title # << >> THEN Some(row.img[1].title)
    ELSE IF Len(row.cells) > 0 /\ strip(row.cells[1].text) # << >>
         THEN Some(strip(row.cells[1].text))
    ELSE IF \E k \in 1..Len(row.cells) : row.cells[k].cls = "inst-name"
         THEN LET k == CHOOSE k \in 1..Len(row.cells) :
                         /\ row.cells[k].cls = "inst-name"
                         /\ \A j \in 1..(k - 1) : row.cells[j].cls # "inst-name"
              IN  IF strip(row.cells[k].text) # << >>
                  THEN Some(strip(row.cells[k].text))
                  ELSE None
    ELSE None

StripPrefix(name, prefix) ==
    IF startswith(lower(name), prefix)
    THEN SubSeq(name, Len(prefix) + 1, Len(name))
    ELSE name

StripSuffix(name, suffix) ==
    IF endswith(name, suffix)
    THEN SubSeq(name, 1, Len(name) - Len(suffix))
    ELSE name

normalize_bank_name(raw_name) ==
    IF raw_name = None \/ raw_name[1] = << >> THEN None
    ELSE LET name0 == strip(raw_name[1])
             name1 == StripPrefix(StripPrefix(name0, s_prefix_contact), s_prefix_here)
             name2 == StripSuffix(StripSuffix(name1, s_suffix_home_loans), s_suffix_futures)
         IN  Some(BankMappingGet(name2))

extract_rate(cell_text) ==
    IF cell_text = << >> THEN None
    ELSE LET rate_match == re_search_decimal(cell_text)
         IN  IF rate_match # None THEN Some(float(rate_match[1])) ELSE None

RECURSIVE Special18From(_, _)
Special18From(cells, k) ==
    IF k > Len(cells) THEN None
    ELSE LET text       == strip(cells[k].text)
             rate_match == re_search_18_months(text)
         IN  IF Contains(text, s_18_months_eq) /\ rate_match # None
             THEN Some(float(rate_match[1]))
             ELSE Special18From(cells, k + 1)

extract_special_18month_rate(row) ==
    Special18From(row.cells, 1)

\* The column list of the positional mapping.
tenors ==
    << "Variable floating", "6 months", "1 year", "2 years", "3 years", "4 years", "5 years" >>

\* "Special" if "Special" in product_type else "Standard"
RateType(product_type) ==
    IF Contains(product_type, s_Special) THEN "Special" ELSE "Standard"

\* The bank a row is attributed to: current_bank after the bank-detection step.
RowBank(bank, row) ==
    LET bank_name       == extract_bank_name(row)
        normalized_bank == normalize_bank_name(bank_name)
    IN  IF /\ bank_name # None
           /\ normalized_bank # None
           /\ normalized_bank[1] # << >>
        THEN normalized_bank
        ELSE bank

\* The special 18-month observation of a row, as a sequence of 0 or 1 observations.
SpecialRates(bank, product_type, row) ==
    LET special_18month_rate == extract_special_18month_rate(row)
    IN  IF Truthy(special_18month_rate)
        THEN << [bank |-> bank, tenor |-> "18 months",
                 rate_type |-> RateType(product_type),
                 rate |-> special_18month_rate[1]] >>
        ELSE << >>

\* The positional observations of cells[i..], in column order (i counted from
\* 1 at the cell after the product cell).
RECURSIVE PositionalRates(_, _, _, _)
PositionalRates(bank, product_type, cells, i) ==
    IF i + 1 > Len(cells) THEN << >>
    ELSE LET rate == IF i <= Len(tenors)
                     THEN extract_rate(strip(cells[i + 1].text))
                     ELSE None
         IN  (IF i <= Len(tenors) /\ Truthy(rate)
              THEN << [bank |-> bank, tenor |-> tenors[i],
                       rate_type |-> RateType(product_type),
                       rate |-> rate[1]] >>
              ELSE << >>)
             \o PositionalRates(bank, product_type, cells, i + 1)

\* The observations one row appends, bank being current_bank after the
\* bank-detection step (None: no bank yet).
RowRates(bank, row) ==
    IF bank = None THEN << >>
    ELSE IF Len(row.cells) < 2 THEN << >>
    ELSE LET product_type == strip(row.cells[1].text)
         IN  SpecialRates(bank[1], product_type, row)
               \o PositionalRates(bank[1], product_type, row.cells, 1)

\* One iteration of the row loop on the parser state [current_bank, rates].
ParseRow(st, row) ==
    LET bank == RowBank(st.current_bank, row)
    IN  [current_bank |-> bank,
         rates        |-> st.rates \o RowRates(bank, row)]

RECURSIVE ParseRows(_, _)
ParseRows(st, rows) ==
    IF rows = << >> THEN st ELSE ParseRows(ParseRow(st, Head(rows)), Tail(rows))

\* table.find('th') or table.find('td', class_='inst-name')
LooksLikeRateTable(table) ==
    \/ table.th
    \/ \E r \in 1..Len(table.rows) :
         \E k \in 1..Len(table.rows[r].cells) : table.rows[r].cells[k].cls = "inst-name"

RECURSIVE ParseTables(_, _)
ParseTables(st, tables) ==
    IF tables = << >> THEN st
    ELSE ParseTables(IF LooksLikeRateTable(Head(tables))
                     THEN ParseRows(st, Head(tables).rows)
                     ELSE st,
                     Tail(tables))

parse_rates(html_content) ==
    ParseTables([current_bank |-> None, rates |-> << >>], html_content).rates

(***************************************************************************)
(* The reducer.  The dict processed_rates is modelled as the sequence of   *)
(* its items [key, value] in insertion order (a Python dict keeps the      *)
(* position of a key whose value is replaced).                             *)
(***************************************************************************)
\* key = (bank, tenor)
ReducerKey(rate_data) ==
    << rate_data.bank, rate_data.tenor >>

\* One iteration of the loop of process_rates on the dict d.
ProcessRate(d, rate_data) ==
    LET key == ReducerKey(rate_data)
    IN  IF ~ \E k \in 1..Len(d) : d[k].key = key
        THEN Append(d, [key |-> key, value |-> rate_data])
        ELSE LET k == CHOOSE k \in 1..Len(d) : d[k].key = key
             IN  IF rate_data.rate < d[k].value.rate
                 THEN [d EXCEPT ![k] = [key |-> key, value |-> rate_data]]
                 ELSE d

RECURSIVE ProcessRatesLoop(_, _)
ProcessRatesLoop(d, rates_in) ==
    IF rates_in = << >> THEN d
    ELSE ProcessRatesLoop(ProcessRate(d, Head(rates_in)), Tail(rates_in))

\* list(processed_rates.values())
process_rates(rates_in) ==
    LET d == ProcessRatesLoop(<< >>, rates_in)
    IN  [k \in 1..Len(d) |-> d[k].value]

(***************************************************************************)
(* The store.  bank_rates is a set of rows                                 *)
(* [id, bank_id, tenor_id, rate, rate_type, updated_at]; banks maps a bank *)
(* name to its id and db_tenors a tenor name to [id, months].              *)
(***************************************************************************)
\* SELECT id FROM bank_rates WHERE bank_id = .. AND tenor_id = .. AND rate_type = ..
\* followed by result.scalar(): Some(id of the first row) or None.
SelectRateId(rows, bank_id, tenor_id, rate_type) ==
    LET found == { r \in rows : /\ r.bank_id = bank_id
                                /\ r.tenor_id = tenor_id
                                /\ r.rate_type = rate_type }
    IN  IF found = {} THEN None
        ELSE Some((CHOOSE r \in found : \A q \in found : r.id <= q.id).id)

\* The id the store gives an inserted row (a serial: larger than every id in use).
NewId(rows) ==
    IF rows = {} THEN 1
    ELSE 1 + (CHOOSE m \in { r.id : r \in rows } : \A r \in rows : r.id <= m)

\* UPDATE bank_rates SET rate = .., updated_at = NOW() WHERE id = ..
UpdateRate(rows, rate_id, rate_value, now) ==
    { IF r.id = rate_id
      THEN [r EXCEPT !.rate = rate_value, !.updated_at = now]
      ELSE r : r \in rows }

\* INSERT INTO bank_rates (bank_id, tenor_id, rate, rate_type, updated_at) VALUES ..
InsertRate(rows, bank_id, tenor_id, rate_value, rate_type, now) ==
    rows \cup { [id |-> NewId(rows), bank_id |-> bank_id, tenor_id |-> tenor_id,
                 rate |-> rate_value, rate_type |-> rate_type, updated_at |-> now] }

\* UpsertRate without the check for an existing row.
UpsertRate_AlwaysInsert(rows, bank_id, tenor_id, rate_value, rate_type, now) ==
    InsertRate(rows, bank_id, tenor_id, rate_value, rate_type, now)

\* The check-then-update-or-insert of one rate inside the session.
UpsertRate(rows, bank_id, tenor_id, rate_value, rate_type, now) ==
    LET rate_id == SelectRateId(rows, bank_id, tenor_id, rate_type)
    IN  IF rate_id # None /\ rate_id[1] # 0
        THEN UpdateRate(rows, rate_id[1], rate_value, now)
        ELSE InsertRate(rows, bank_id, tenor_id, rate_value, rate_type, now)

\* Whether the loop body reaches the upsert for rate_data: its tenor label is
\* mapped, its bank is in banks and its canonical tenor in db_tenors.
Resolvable(rate_data, bank_table, tenor_table) ==
    /\ TenorMappingGet(rate_data.tenor) # None
    /\ rate_data.bank \in DOMAIN bank_table
    /\ TenorMappingGet(rate_data.tenor)[1].name \in DOMAIN tenor_table

(***************************************************************************)
(* The HTTP handler's mapping of main's result to a response.              *)
(***************************************************************************)
\* Response that ignores the status of the result.
Response_AlwaysOk(result) ==
    [code |-> 200, result |-> result]

Response(result) ==
    IF result.status = "success"
    THEN [code |-> 200, result |-> result]
    ELSE [code |-> 500, result |-> result]

ErrorResult(message) ==
    [status |-> "error", message |-> message]

SuccessResult(count) ==
    [status |-> "success", rates_updated |-> count]

(***************************************************************************)
(* Bounds of the model.                                                    *)
(***************************************************************************)
\* Rows the parser reads in one document.
MaxRows ==
    3
\* Tables of one document.
MaxTables ==
    2
\* Length of the observation list given to the reducer.
MaxLen ==
    3
\* POSTs to /run-scraper in sequence.
MaxRuns ==
    2

(***************************************************************************)
(* Inputs: rows, pages, observation lists and initial stores.              *)
(***************************************************************************)
Cell(text) ==
    [text |-> text, cls |-> ""]
InstCell(text) ==
    [text |-> text, cls |-> "inst-name"]
NoImg ==
    None
Img(alt, title) ==
    Some([alt |-> alt, title |-> title])
Row(img, cells) ==
    [img |-> img, cells |-> cells]

\* A bank row: logo image with alt text, product label, two rates.
RowBankASB ==
    Row(Img(s_ASB, t_empty), << Cell(t_Standard), Cell(t_6_99), Cell(t_6_49_pct) >>)
\* A follow-on product row: no image, the product label in the first cell.
RowFollowSpecial ==
    Row(NoImg, << Cell(t_Special_rates), Cell(t_6_29), Cell(t_dash) >>)
\* A follow-on row whose first cell is empty.
RowFollowBlank ==
    Row(NoImg, << Cell(t_empty), Cell(t_5_99) >>)
\* The combined 18-month cell as the only cell of a bank row.
Row18Only ==
    Row(Img(s_BNZ, t_empty), << Cell(t_18m_5_79) >>)
\* The combined 18-month cell as the last cell, after one without a number.
Row18Last ==
    Row(NoImg, << Cell(t_empty), Cell(t_18m_na), Cell(t_18m_5_79) >>)
\* The combined 18-month cell as the first cell of a bank row.
Row18First ==
    Row(Img(s_ASB, t_empty), << Cell(t_18m_5_79), Cell(t_6_49_pct) >>)
\* A row with a zero rate.
RowZero ==
    Row(NoImg, << Cell(t_empty), Cell(t_0_00), Cell(t_5_99) >>)
\* A header row: <th> cells only.
RowHeader ==
    Row(NoImg, << >>)
\* A row with more rate cells than the column list has tenors.
RowWide ==
    Row(NoImg, << Cell(t_empty), Cell(t_6_99), Cell(t_6_49_pct), Cell(t_5_99), Cell(t_6_99),
                  Cell(t_6_49_pct), Cell(t_5_99), Cell(t_6_99), Cell(t_6_49_pct) >>)
\* A bank row identified by the image's title, with a contact prefix.
RowTitleSBS ==
    Row(Img(t_empty, t_alt_SBS), << Cell(t_empty), Cell(t_6_99) >>)
\* A bank row identified by an institution-name cell in first position.
RowInstKiwibank ==
    Row(NoImg, << InstCell(s_Kiwibank), Cell(t_5_99) >>)
\* A bank row identified by an institution-name cell after an empty first cell.
RowInstTSB ==
    Row(NoImg, << Cell(t_empty), InstCell(t_alt_TSB), Cell(t_6_29) >>)

Rows ==
    { RowBankASB, RowFollowSpecial, RowFollowBlank, Row18Only, Row18Last, Row18First,
      RowZero, RowHeader, RowWide, RowTitleSBS, RowInstKiwibank, RowInstTSB }

HasInstCell(r) ==
    \E k \in 1..Len(r.cells) : r.cells[k].cls = "inst-name"

Table(th, rows) ==
    [th |-> th, rows |-> rows]

\* One rate table, one bank row.
PageOneBank ==
    << Table(TRUE, << RowHeader, RowBankASB >>) >>
\* A bank row and a follow-on row of the same bank with a lower floating rate.
PageFollowOn ==
    << Table(TRUE, << RowBankASB, RowFollowBlank >>) >>
\* A layout table, then a rate table without <th> holding two banks.
PageTwoBanks ==
    << Table(FALSE, << RowTitleSBS >>),
       Table(FALSE, << Row18First, RowInstKiwibank >>) >>

Pages ==
    { PageOneBank, PageFollowOn, PageTwoBanks }

\* Observations given to the reducer.
Observations ==
    [bank : {s_ASB, s_BNZ}, tenor : {"Variable floating", "floating"},
     rate_type : {"Standard", "Special"}, rate : {639, 649}]

ObservationLists ==
    UNION { [1..n -> Observations] : n \in 0..MaxLen }

BankTables ==
    { (s_ASB :> 1) @@ (s_Kiwibank :> 2), (s_ASB :> 1) }

AllTenors ==
    ("Floating" :> [id |-> 1, months |-> 1]) @@ ("6 months" :> [id |-> 2, months |-> 6])
      @@ ("1 year" :> [id |-> 3, months |-> 12]) @@ ("18 months" :> [id |-> 4, months |-> 18])
      @@ ("2 years" :> [id |-> 5, months |-> 24]) @@ ("3 years" :> [id |-> 6, months |-> 36])
      @@ ("4 years" :> [id |-> 7, months |-> 48]) @@ ("5 years" :> [id |-> 8, months |-> 60])

TenorTables ==
    { AllTenors,
      [name \in (DOMAIN AllTenors) \ {"18 months"} |-> AllTenors[name]] }

InitialRates ==
    { {},
      { [id |-> 1, bank_id |-> 1, tenor_id |-> 1, rate |-> 705,
         rate_type |-> "Standard", updated_at |-> 0] } }

(***************************************************************************)
(* State.                                                                  *)
(***************************************************************************)
VARIABLES
    \* parse_rates: the loop over the tables and rows of one document
    current_bank,     \* None or Some(bank name)
    rates,            \* the observations appended so far
    row,              \* None or Some(the row of the last iteration)
    in_table,         \* inside the row loop of a table
    need_inst,        \* the open table has no <th> and no inst-name cell so far
    n_rows,           \* rows read
    n_tables,         \* tables read
    prev_bank,        \* current_bank before the last iteration
    prev_len,         \* Len(rates) before the last iteration
    \* process_rates
    r_in,             \* the argument
    r_out,            \* None or Some(the returned list)
    \* one POST /run-scraper after another
    pc,               \* "idle", "connect", "update", "loop", "done"
    page,             \* the source page
    imported,         \* whether cloud_run_server imported interest_scraper.main
    processed_rates,  \* main's processed_rates
    banks,            \* table banks: name -> id
    db_tenors,        \* table tenors: name -> [id, months]
    bank_rates,       \* table bank_rates, committed rows
    session,          \* the rows the open transaction sees
    idx,              \* position of the loop of update_database in processed_rates
    updated_count,
    response,         \* None or Some([code, result]) of the current POST
    runs,             \* POSTs answered
    log,              \* what the current run did
    after             \* per answered POST: bank_rates after it, and whether it ran clean

parse_vars ==
    << current_bank, rates, row, in_table, need_inst, n_rows, n_tables, prev_bank, prev_len >>
reduce_vars ==
    << r_in, r_out >>
run_vars ==
    << pc, page, imported, processed_rates, banks, db_tenors, bank_rates, session, idx,
       updated_count, response, runs, log, after >>
vars ==
    << parse_vars, reduce_vars, run_vars >>

ParseInit ==
    /\ current_bank = None
    /\ rates = << >>
    /\ row = None
    /\ in_table = FALSE
    /\ need_inst = FALSE
    /\ n_rows = 0
    /\ n_tables = 0
    /\ prev_bank = None
    /\ prev_len = 0

ReduceIdle ==
    /\ r_in = << >>
    /\ r_out = None

\* The log of a run that starts with the committed rows start: whether the
\* page was fetched, the engine obtained and update_database called; the
\* positions of processed_rates whose loop iteration ran (attempted), whose
\* statements raised (failed) and whose upsert went through (applied); whether
\* a statement raised something other than SQLAlchemyError (unexpected),
\* whether the commit went through, and whether an INSERT or UPDATE ran.
NewLog(start) ==
    [fetched |-> FALSE, connected |-> FALSE, update_called |-> FALSE,
     attempted |-> {}, failed |-> {}, applied |-> {}, unexpected |-> FALSE,
     committed |-> FALSE, wrote |-> FALSE, start |-> start]

RunIdle ==
    /\ pc = "idle"
    /\ page = << >>
    /\ imported = TRUE
    /\ processed_rates = << >>
    /\ banks = << >>
    /\ db_tenors = << >>
    /\ bank_rates = {}
    /\ session = {}
    /\ idx = 0
    /\ updated_count = 0
    /\ response = None
    /\ runs = 0
    /\ log = NewLog({})
    /\ after = << >>

(***************************************************************************)
(* parse_rates, one table or row at a time.                                *)
(***************************************************************************)
\* A table with neither <th> nor an inst-name cell: continue.
SkipTable ==
    /\ ~ in_table
    /\ n_tables < MaxTables
    /\ n_tables' = n_tables + 1
    /\ UNCHANGED << current_bank, rates, row, in_table, need_inst, n_rows, prev_bank,
                    prev_len, reduce_vars, run_vars >>

\* A table that looks like a rate table: its row loop starts.  Without <th>
\* it holds an inst-name cell, which one of its rows must bring.
EnterTable(th) ==
    /\ ~ in_table
    /\ n_tables < MaxTables
    /\ n_tables' = n_tables + 1
    /\ in_table' = TRUE
    /\ need_inst' = ~ th
    /\ UNCHANGED << current_bank, rates, row, n_rows, prev_bank, prev_len, reduce_vars,
                    run_vars >>

\* One iteration of the row loop.
ParseRowStep(r) ==
    /\ in_table
    /\ n_rows < MaxRows
    /\ n_rows' = n_rows + 1
    /\ row' = Some(r)
    /\ prev_bank' = current_bank
    /\ prev_len' = Len(rates)
    /\ LET st == ParseRow([current_bank |-> current_bank, rates |-> rates], r)
       IN  /\ current_bank' = st.current_bank
           /\ rates' = st.rates
    /\ need_inst' = (need_inst /\ ~ HasInstCell(r))
    /\ UNCHANGED << in_table, n_tables, reduce_vars, run_vars >>

\* The row loop of the table ends.
LeaveTable ==
    /\ in_table
    /\ ~ need_inst
    /\ in_table' = FALSE
    /\ UNCHANGED << current_bank, rates, row, need_inst, n_rows, n_tables, prev_bank,
                    prev_len, reduce_vars, run_vars >>

ParseNext ==
    \/ SkipTable
    \/ \E th \in BOOLEAN : EnterTable(th)
    \/ \E r \in Rows : ParseRowStep(r)
    \/ LeaveTable

InitParse ==
    ParseInit /\ ReduceIdle /\ RunIdle

SpecParse ==
    InitParse /\ [][ParseNext]_vars

(***************************************************************************)
(* process_rates on a bounded list of observations.                        *)
(***************************************************************************)
ReduceInit ==
    /\ r_in \in ObservationLists
    /\ r_out = None

Reduce ==
    /\ r_out = None
    /\ r_out' = Some(process_rates(r_in))
    /\ UNCHANGED << r_in, parse_vars, run_vars >>

InitReduce ==
    ParseInit /\ ReduceInit /\ RunIdle

SpecReduce ==
    InitReduce /\ [][Reduce]_vars

(***************************************************************************)
(* POST /run-scraper: run_scraper calls main, which fetches, parses,       *)
(* reduces, connects and calls update_database.  One action per outcome of *)
(* each call to the outside (the page fetch, the connection, the session's *)
(* statements, the commit).                                                *)
(***************************************************************************)
\* NOW() of a run's transaction.
Now ==
    runs + 1

\* A run that went through the full cycle: fetch, parse, reduce, connect,
\* update loop and commit.
Full(lg) ==
    /\ lg.fetched
    /\ lg.connected
    /\ lg.committed

\* A full run in which no upsert failed.
Clean(lg) ==
    /\ Full(lg)
    /\ lg.failed = {}

\* run_scraper returns resp; lg is the run's log and rows the committed rows.
EndRun(resp, lg, rows) ==
    /\ bank_rates' = rows
    /\ response' = Some(resp)
    /\ pc' = "done"
    /\ runs' = runs + 1
    /\ log' = lg
    /\ session' = {}
    /\ after' = Append(after, [rates |-> rows, full |-> Full(lg), clean |-> Clean(lg)])

RunInit ==
    /\ pc = "idle"
    /\ page \in Pages
    /\ imported \in BOOLEAN
    /\ processed_rates = << >>
    /\ banks \in BankTables
    /\ db_tenors \in TenorTables
    /\ bank_rates \in InitialRates
    /\ session = {}
    /\ idx = 0
    /\ updated_count = 0
    /\ response = None
    /\ runs = 0
    /\ log = NewLog(bank_rates)
    /\ after = << >>

\* The import of interest_scraper failed: the fallback scraper_main answers.
FallbackMain ==
    /\ pc = "idle"
    /\ runs < MaxRuns
    /\ ~ imported
    /\ EndRun(Response(ErrorResult("Failed to import real scraper")), log, bank_rates)
    /\ UNCHANGED << page, imported, processed_rates, banks, db_tenors, idx, updated_count,
                    parse_vars, reduce_vars >>

\* fetch_data returns the page; main parses and reduces it.
FetchOk ==
    /\ pc = "idle"
    /\ runs < MaxRuns
    /\ imported
    /\ processed_rates' = process_rates(parse_rates(page))
    /\ log' = [log EXCEPT !.fetched = TRUE]
    /\ pc' = "connect"
    /\ UNCHANGED << page, imported, banks, db_tenors, bank_rates, session, idx,
                    updated_count, response, runs, after, parse_vars, reduce_vars >>

\* fetch_data returns None (a RequestException) or an empty body; any other
\* exception leaves main and is caught by run_scraper.
FetchFail(outcome) ==
    /\ pc = "idle"
    /\ runs < MaxRuns
    /\ imported
    /\ IF outcome = "Exception"
       THEN EndRun([code |-> 500, result |-> ErrorResult("Exception")], log, bank_rates)
       ELSE EndRun(Response(ErrorResult("Failed to fetch data")), log, bank_rates)
    /\ UNCHANGED << page, imported, processed_rates, banks, db_tenors, idx, updated_count,
                    parse_vars, reduce_vars >>

\* get_db_connection returns an engine.
ConnectOk ==
    /\ pc = "connect"
    /\ log' = [log EXCEPT !.connected = TRUE]
    /\ pc' = "update"
    /\ UNCHANGED << page, imported, processed_rates, banks, db_tenors, bank_rates, session,
                    idx, updated_count, response, runs, after, parse_vars, reduce_vars >>

\* get_db_connection returns None: a required environment variable is
\* missing, or creating or testing the engine raised.
ConnectFail(cause) ==
    /\ pc = "connect"
    /\ EndRun(Response(ErrorResult("Failed to connect to database")), log, bank_rates)
    /\ UNCHANGED << page, imported, processed_rates, banks, db_tenors, idx, updated_count,
                    parse_vars, reduce_vars >>

\* update_database opens the session and reads banks and tenors.
BeginOk ==
    /\ pc = "update"
    /\ session' = bank_rates
    /\ idx' = 1
    /\ updated_count' = 0
    /\ log' = [log EXCEPT !.update_called = TRUE]
    /\ pc' = "loop"
    /\ UNCHANGED << page, imported, processed_rates, banks, db_tenors, bank_rates, response,
                    runs, after, parse_vars, reduce_vars >>

\* Opening the session or reading banks and tenors raised: update_database
\* returns updated_count = 0 and main reports success.
BeginFail(kind) ==
    /\ pc = "update"
    /\ updated_count' = 0
    /\ EndRun(Response(SuccessResult(0)),
              [log EXCEPT !.update_called = TRUE, !.unexpected = (kind = "Exception")],
              bank_rates)
    /\ UNCHANGED << page, imported, processed_rates, banks, db_tenors, idx, parse_vars,
                    reduce_vars >>

\* A rate whose tenor label is not mapped, or whose bank or tenor is not in
\* the store: warning, continue.
SkipRate ==
    /\ pc = "loop"
    /\ idx <= Len(processed_rates)
    /\ ~ Resolvable(processed_rates[idx], banks, db_tenors)
    /\ idx' = idx + 1
    /\ log' = [log EXCEPT !.attempted = @ \cup {idx}]
    /\ UNCHANGED << pc, page, imported, processed_rates, banks, db_tenors, bank_rates,
                    session, updated_count, response, runs, after, parse_vars, reduce_vars >>

\* The statements of one rate succeed.
UpsertOk ==
    /\ pc = "loop"
    /\ idx <= Len(processed_rates)
    /\ Resolvable(processed_rates[idx], banks, db_tenors)
    /\ LET rate_data == processed_rates[idx]
           tenor_name == TenorMappingGet(rate_data.tenor)[1].name
       IN  session' = UpsertRate(session, banks[rate_data.bank], db_tenors[tenor_name].id,
                                 rate_data.rate, rate_data.rate_type, Now)
    /\ updated_count' = updated_count + 1
    /\ idx' = idx + 1
    /\ log' = [log EXCEPT !.attempted = @ \cup {idx}, !.applied = @ \cup {idx},
                          !.wrote = TRUE]
    /\ UNCHANGED << pc, page, imported, processed_rates, banks, db_tenors, bank_rates,
                    response, runs, after, parse_vars, reduce_vars >>

\* UpsertFail without the handler of the loop body: the SQLAlchemyError reaches
\* the handler of the transaction, which rolls back and ends the batch.
UpsertFail_EndsBatch ==
    /\ pc = "loop"
    /\ idx <= Len(processed_rates)
    /\ Resolvable(processed_rates[idx], banks, db_tenors)
    /\ EndRun(Response(SuccessResult(updated_count)),
              [log EXCEPT !.attempted = @ \cup {idx}, !.failed = @ \cup {idx}],
              bank_rates)
    /\ UNCHANGED << page, imported, processed_rates, banks, db_tenors, idx, updated_count,
                    parse_vars, reduce_vars >>

\* A statement of one rate raises SQLAlchemyError: logged, the loop goes on.
UpsertFail ==
    /\ pc = "loop"
    /\ idx <= Len(processed_rates)
    /\ Resolvable(processed_rates[idx], banks, db_tenors)
    /\ idx' = idx + 1
    /\ log' = [log EXCEPT !.attempted = @ \cup {idx}, !.failed = @ \cup {idx}]
    /\ UNCHANGED << pc, page, imported, processed_rates, banks, db_tenors, bank_rates,
                    session, updated_count, response, runs, after, parse_vars, reduce_vars >>

\* A statement of one rate raises another exception: it leaves the loop, the
\* session is closed without a commit and update_database returns updated_count.
UpsertAbort ==
    /\ pc = "loop"
    /\ idx <= Len(processed_rates)
    /\ Resolvable(processed_rates[idx], banks, db_tenors)
    /\ EndRun(Response(SuccessResult(updated_count)),
              [log EXCEPT !.attempted = @ \cup {idx}, !.failed = @ \cup {idx},
                          !.unexpected = TRUE],
              bank_rates)
    /\ UNCHANGED << page, imported, processed_rates, banks, db_tenors, idx, updated_count,
                    parse_vars, reduce_vars >>

\* session.commit() succeeds.
CommitOk ==
    /\ pc = "loop"
    /\ idx > Len(processed_rates)
    /\ EndRun(Response(SuccessResult(updated_count)), [log EXCEPT !.committed = TRUE],
              session)
    /\ UNCHANGED << page, imported, processed_rates, banks, db_tenors, idx, updated_count,
                    parse_vars, reduce_vars >>

\* session.commit() raises: SQLAlchemyError is followed by a rollback, another
\* exception by the close of the session; update_database returns updated_count.
CommitFail(kind) ==
    /\ pc = "loop"
    /\ idx > Len(processed_rates)
    /\ EndRun(Response(SuccessResult(updated_count)),
              [log EXCEPT !.unexpected = (kind = "Exception")], bank_rates)
    /\ UNCHANGED << page, imported, processed_rates, banks, db_tenors, idx, updated_count,
                    parse_vars, reduce_vars >>

\* The next POST arrives.
NextRun ==
    /\ pc = "done"
    /\ runs < MaxRuns
    /\ pc' = "idle"
    /\ response' = None
    /\ processed_rates' = << >>
    /\ idx' = 0
    /\ updated_count' = 0
    /\ log' = NewLog(bank_rates)
    /\ UNCHANGED << page, imported, banks, db_tenors, bank_rates, session, runs, after,
                    parse_vars, reduce_vars >>

Next ==
    \/ FallbackMain
    \/ FetchOk
    \/ \E outcome \in {"RequestException", "empty", "Exception"} : FetchFail(outcome)
    \/ ConnectOk
    \/ \E cause \in {"missing_env", "SQLAlchemyError", "Exception"} : ConnectFail(cause)
    \/ BeginOk
    \/ \E kind \in {"SQLAlchemyError", "Exception"} : BeginFail(kind)
    \/ SkipRate
    \/ UpsertOk
    \/ UpsertFail
    \/ UpsertAbort
    \/ CommitOk
    \/ \E kind \in {"SQLAlchemyError", "Exception"} : CommitFail(kind)
    \/ NextRun

Init ==
    ParseInit /\ ReduceIdle /\ RunInit

Spec ==
    Init /\ [][Next]_vars

(***************************************************************************)
(* Properties.                                                             *)
(***************************************************************************)
\* The observations the last row appended.
Emitted ==
    SubSeq(rates, prev_len + 1, Len(rates))

Triple(o) ==
    << o.bank, o.tenor, o.rate_type >>

CanonicalKey(o) ==
    << o.bank, TenorMappingGet(o.tenor)[1].name, o.rate_type >>

\* C1: the triples (bank, tenor, rate_type) of the output of process_rates
\* are exactly the triples of its input, and each output record carries the
\* minimum rate of the input observations with its triple.
C1_OutputIsMinPerTriple ==
    r_out # None =>
        LET out == r_out[1]
        IN  /\ { Triple(out[k]) : k \in 1..Len(out) } = { Triple(r_in[j]) : j \in 1..Len(r_in) }
            /\ \A k \in 1..Len(out) :
                 /\ \E j \in 1..Len(r_in) :
                      Triple(r_in[j]) = Triple(out[k]) /\ r_in[j].rate = out[k].rate
                 /\ \A j \in 1..Len(r_in) :
                      Triple(r_in[j]) = Triple(out[k]) => out[k].rate <= r_in[j].rate

\* C2: the output of process_rates never holds two records with the same
\* (bank, canonical tenor name, rate_type).
C2_NoDuplicateCanonicalKey ==
    r_out # None =>
        \A j, k \in 1..Len(r_out[1]) :
            j # k => CanonicalKey(r_out[1][j]) # CanonicalKey(r_out[1][k])

\* A row with no image alt or title and no institution-name cell.
NoBankIdentifier(r) ==
    /\ r.img = None \/ (r.img[1].alt = << >> /\ r.img[1].title = << >>)
    /\ ~ HasInstCell(r)

\* C3: once a bank has been seen, a row that carries no bank identifier
\* leaves current_bank unchanged, and every observation of that row carries
\* the bank of the most recent bank-identifying row.
C3_RowWithoutIdentifierKeepsBank ==
    (row # None /\ prev_bank # None /\ NoBankIdentifier(row[1])) =>
        /\ current_bank = prev_bank
        /\ \A k \in 1..Len(Emitted) : Emitted[k].bank = prev_bank[1]

\* The positional observations the row [product, c1, ..., cn] of bank B is
\* to yield: one per column k within the column list whose cell holds a
\* decimal number, in column order.
RECURSIVE ExpectedPositional(_, _, _, _)
ExpectedPositional(bank, product, cells, k) ==
    IF k + 1 > Len(cells) \/ k > Len(tenors) THEN << >>
    ELSE (IF re_search_decimal(cells[k + 1].text) # None
          THEN << [bank |-> bank, tenor |-> tenors[k],
                   rate_type |-> IF Contains(product, s_Special) THEN "Special" ELSE "Standard",
                   rate |-> float(re_search_decimal(cells[k + 1].text)[1])] >>
          ELSE << >>)
         \o ExpectedPositional(bank, product, cells, k + 1)

\* C4: a row attributed to bank B yields, in column order, exactly one
\* positional observation for each column of the column list whose cell
\* holds a decimal number, with the rate equal to that number.
C4_OnePositionalObservationPerRateCell ==
    (row # None /\ current_bank # None) =>
        LET cells == row[1].cells
            IsPositional(o) == o.tenor # "18 months"
        IN  SelectSeq(Emitted, IsPositional)
              = ExpectedPositional(current_bank[1],
                                   IF Len(cells) > 0 THEN cells[1].text ELSE << >>,
                                   cells, 1)

\* The text "18 months = r", r a decimal number.
IsCombined18(text) ==
    /\ StartsAt(text, 1, s_18_months_eq_sp)
    /\ MatchDecimalAt(text, Len(s_18_months_eq_sp) + 1)
         = Some(SubSeq(text, Len(s_18_months_eq_sp) + 1, Len(text)))

\* C5: a row attributed to bank B that holds a cell "18 months = r" yields
\* the observation {B, 18 months, r}, wherever the cell stands and however
\* many cells the row has.
C5_Combined18MonthCellAlwaysEmitted ==
    (row # None /\ current_bank # None) =>
        \A k \in 1..Len(row[1].cells) :
            IsCombined18(row[1].cells[k].text) =>
                \E j \in 1..Len(Emitted) :
                    /\ Emitted[j].bank = current_bank[1]
                    /\ Emitted[j].tenor = "18 months"
                    /\ Emitted[j].rate
                         = float(SubSeq(row[1].cells[k].text, Len(s_18_months_eq_sp) + 1,
                                        Len(row[1].cells[k].text)))

\* update_database went through the whole list and committed.
ProcessedWholeList ==
    /\ pc = "done"
    /\ log.update_called
    /\ log.attempted = 1..Len(processed_rates)
    /\ log.committed

\* C6: after update_database has processed a list, every bank and every
\* canonical tenor of the list is in the store, and no rate of the list was
\* skipped.
C6_MissingBankAndTenorCreated ==
    ProcessedWholeList =>
        \A k \in 1..Len(processed_rates) :
            /\ processed_rates[k].bank \in DOMAIN banks
            /\ TenorMappingGet(processed_rates[k].tenor)[1].name \in DOMAIN db_tenors
            /\ k \in log.applied \cup log.failed

\* The number of rows the run persisted.
Persisted(lg) ==
    IF lg.committed THEN Cardinality(lg.applied) ELSE 0

\* C7: the reported rates_updated is the number of rows the run persisted:
\* 0 when the transaction was not committed.
C7_CountIsRowsPersisted ==
    (pc = "done" /\ response[1].result.status = "success") =>
        response[1].result.rates_updated = Persisted(log)

\* The committed rows hold the rate of position j of processed_rates.
Stored(rows, j) ==
    \E r \in rows :
        /\ r.bank_id = banks[processed_rates[j].bank]
        /\ r.tenor_id = db_tenors[TenorMappingGet(processed_rates[j].tenor)[1].name].id
        /\ r.rate_type = processed_rates[j].rate_type
        /\ r.rate = processed_rates[j].rate

Contents(rows) ==
    { [id |-> r.id, bank_id |-> r.bank_id, tenor_id |-> r.tenor_id, rate |-> r.rate,
       rate_type |-> r.rate_type] : r \in rows }

\* At most one row per (bank_id, tenor_id, rate_type).
UniqueKeys(rows) ==
    \A r, q \in rows :
        (r.bank_id = q.bank_id /\ r.tenor_id = q.tenor_id /\ r.rate_type = q.rate_type)
            => r = q

C10_FailedRunWritesNothingAndAnswers500 ==
    pc = "done" =>
        /\ (~ log.fetched \/ ~ log.connected) =>
             /\ response[1].code = 500
             /\ response[1].result.status = "error"
             /\ ~ log.wrote
             /\ bank_rates = log.start
        /\ response[1].code = 200 =>
             /\ log.fetched
             /\ log.connected
             /\ log.update_called

\* The second POST fails to connect after a first POST that stored rates.
C10_Witness ==
    /\ pc = "done"
    /\ runs = 2
    /\ log.fetched
    /\ ~ log.connected
    /\ \E r \in bank_rates : r.updated_at = 1
    /\ response[1].code = 500

\* C11: parse_rates moves from NO_BANK (current_bank is None) to HAS_BANK
\* and never back.  While no bank-identifying row has been seen no
\* observation exists and a row without a bank identifier is skipped: it
\* leaves the parser in NO_BANK and emits nothing.  Once a bank has been
\* seen, no step, whether a row or the move to the next table, brings
\* NO_BANK back, and the observations emitted so far stay as they are.
C11_NoBankThenHasBank ==
    /\ [](current_bank = None => rates = << >>)
    /\ []((row # None /\ prev_bank = None /\ NoBankIdentifier(row[1])) =>
            (current_bank = None /\ Emitted = << >>))
    /\ [][current_bank # None =>
            (current_bank' # None /\ SubSeq(rates', 1, Len(rates)) = rates)]_vars

\* C12: a cell "18 months = r" contributes the 18-month observation only:
\* the row yields no observation with rate r under the tenor of the column
\* the cell stands in.
C12_Combined18MonthCellNotPositional ==
    (row # None /\ current_bank # None) =>
        \A k \in 2..Len(row[1].cells) :
            (k - 1 <= Len(tenors) /\ IsCombined18(row[1].cells[k].text)) =>
                ~ \E j \in 1..Len(Emitted) :
                    /\ Emitted[j].tenor = tenors[k - 1]
                    /\ Emitted[j].rate
                         = float(SubSeq(row[1].cells[k].text, Len(s_18_months_eq_sp) + 1,
                                        Len(row[1].cells[k].text)))
====
